---- MODULE Spec2Model ----
(***************************************************************************)
(* The ubo_tilemap example of gfx (src/examples/ubo_tilemap/main.rs):      *)
(* the TileMap (logical grid, viewport buffer, focus, sub-tile offsets),   *)
(* the TileMapPlane's GPU buffer and offset uniform, and the InputHandler. *)
(*                                                                         *)
(* Arrays indexed from 0 in the source (tiles, data, the GPU buffer) are   *)
(* functions on 0..n-1; the two-element arrays [x, y] are tuples, so       *)
(* focus[0] of the source is focus[1] here and focus[1] is focus[2].       *)
(***************************************************************************)
EXTENDS Integers, Sequences, FiniteSets, TLC

(***************************************************************************)
(* Sizes.  main passes tilemap_size [24,24] and charmap_size [16,16]; the  *)
(* model keeps the shape (viewport no larger than the grid) with small     *)
(* numbers: the grid is the viewport plus ExtraW columns and ExtraH rows.  *)
(***************************************************************************)
ViewW == 2
ViewH == 2
ExtraW == 2
ExtraH == 1
\* at most this many set_tile calls in one behaviour
MaxSetTile == 2
\* at most this many direct set_focus calls in one behaviour
MaxSetFocus == 1
\* at most this many events in one poll_events
MaxEvents == 2
\* at most this many apply_*_offset calls with a delta off the pixel grid:
\* while scrolling, and in a run of forward offsets
MaxFine == 1
MaxRunFine == 2
\* at most this many set_tile calls while the grid is also scrolled
MaxMapSetTile == 1
\* at most this many iterations of the main loop, and events in one of its polls
MaxFrames == 4
MaxPoll == 1

tile_size == 32
TILEMAP_BUF_LENGTH == 4096

tilemap_size == <<ViewW + ExtraW, ViewH + ExtraH>>
charmap_size == <<ViewW, ViewH>>
limit_coords == <<tilemap_size[1] - charmap_size[1], tilemap_size[2] - charmap_size[2]>>

(***************************************************************************)
(* f32.  An offset is an f32 number of pixels.  The model holds it as an   *)
(* integer count of 2^-20 pixel, so 1.0 is Unit.  Every f32 of magnitude   *)
(* below 2^24 counts is held exactly; from there on an f32 has 24          *)
(* significant bits, so the sum of two values is rounded to a multiple of  *)
(* 2, 4, 8, ... counts, to nearest, ties to the even significand.          *)
(***************************************************************************)
Unit == 2^20
Significand == 2^24

Abs(v) == IF v < 0 THEN -v ELSE v

RECURSIVE Spacing(_)
Spacing(a) == IF a < Significand THEN 1 ELSE 2 * Spacing(a \div 2)

RoundF32(v) ==
    LET a == Abs(v)
        s == Spacing(a)
        q == a \div s
        r == a % s
        up == (2 * r > s) \/ (2 * r = s /\ q % 2 = 1)
        m == IF up THEN (q + 1) * s ELSE q * s
    IN  IF v < 0 THEN -m ELSE m

F32Add(a, b) == RoundF32(a + b)
F32Sub(a, b) == RoundF32(a - b)

\* tile_size as f32
TileSizeF == tile_size * Unit

(***************************************************************************)
(* TileMapData: four f32, here four small integers.                        *)
(***************************************************************************)
new_empty == <<0, 0, 0, 0>>

(***************************************************************************)
(* tilemap, handler: the two objects of main.  panicked: a panic! (or a    *)
(* failed unwrap or index) has ended the process.  last: the operation     *)
(* that led to this state, with its arguments, what it returned and, for   *)
(* apply_x_offset and apply_y_offset, the focus and offsets it started     *)
(* from.  since[k]: the latest press/release  *)
(* event delivered for key k since watch(k).  run: a run of forward        *)
(* offsets on one axis, each below tile_size, that began at offset 0: the  *)
(* axis, the focus it began at, the sum of its deltas (exact, not f32) and *)
(* whether every f32 sum so far was exact.  nset, nfocus, nfine: counters  *)
(* that bound the behaviours.                                              *)
(***************************************************************************)
VARIABLES tilemap, handler, panicked, last, since, run, nset, nfocus, nfine, main

vars == <<tilemap, handler, panicked, last, since, run, nset, nfocus, nfine, main>>

CharmapLen == charmap_size[1] * charmap_size[2]
TilesLen == tilemap_size[1] * tilemap_size[2]

(***************************************************************************)
(* TileMap::new with TileMapPlane::new: all tiles and the viewport buffer  *)
(* empty, offsets [0.0, 0.0], focus [0,0].  The GPU buffer is created      *)
(* without contents; gpu0 is what it happens to hold.  gpu holds records   *)
(* 0..CharmapLen-1 of the buffer and one more record, CharmapLen, standing *)
(* for the rest of its TILEMAP_BUF_LENGTH records.                         *)
(***************************************************************************)
TileMapNew(gpu0) ==
    [tiles |-> [i \in 0..(TilesLen - 1) |-> new_empty],
     data |-> [i \in 0..(CharmapLen - 1) |-> new_empty],
     gpu |-> [i \in 0..CharmapLen |-> gpu0],
     offsets |-> <<0, 0>>,
     focus_coords |-> <<0, 0>>]

\* update_data that uploads from record 1 on
update_dataFromOne(tm) ==
    [tm EXCEPT !.gpu = [i \in DOMAIN tm.gpu |->
                           IF 0 < i /\ i <= CharmapLen THEN tm.data[i - 1] ELSE tm.gpu[i]]]

\* TileMapPlane::update_data: upload data into the GPU buffer from record 0
update_data(tm) ==
    [tm EXCEPT !.gpu = [i \in DOMAIN tm.gpu |->
                           IF i < CharmapLen THEN tm.data[i] ELSE tm.gpu[i]]]

\* factory.update_buffer(..).unwrap() fails when data exceeds the buffer
UpdateDataOk == CharmapLen <= TILEMAP_BUF_LENGTH

\* the condition of set_focus
FocusInLimits(focus) == focus[1] <= limit_coords[1] /\ focus[2] <= limit_coords[2]

\* calc_idx with the rows counted in the grid's height
calc_idxByHeight(xpos, ypos) == (ypos * tilemap_size[2]) + xpos

\* the index of logical tile (xpos, ypos)
calc_idx(xpos, ypos) == (ypos * tilemap_size[1]) + xpos

\* the loops of set_focus with the logical rows counted in the viewport's width
WindowCopyByCharmapWidth(tm, focus) ==
    [charmap_idx \in 0..(CharmapLen - 1) |->
        LET charmap_ypos == charmap_idx \div charmap_size[1]
            charmap_xpos == charmap_idx % charmap_size[1]
            ypos == focus[2] + charmap_ypos
            xpos == focus[1] + charmap_xpos
            tile_idx == (ypos * charmap_size[1]) + xpos
        IN  tm.tiles[tile_idx]]

\* the nested loops of set_focus: the window of tiles at focus, row by row
WindowCopy(tm, focus) ==
    [charmap_idx \in 0..(CharmapLen - 1) |->
        LET charmap_ypos == charmap_idx \div charmap_size[1]
            charmap_xpos == charmap_idx % charmap_size[1]
            ypos == focus[2] + charmap_ypos
            xpos == focus[1] + charmap_xpos
            tile_idx == (ypos * tilemap_size[1]) + xpos
        IN  tm.tiles[tile_idx]]

(***************************************************************************)
(* The operations return [tm, panic, called, steps]: the TileMap as the     *)
(* call leaves it, whether the call panicked, whether it called set_focus, *)
(* and the fields it wrote, in the order of the writes.                    *)
(***************************************************************************)
\* set_focus that stores the focus before it tests it
set_focusStoresFirst(tm, focus) ==
    LET stored == [tm EXCEPT !.focus_coords = focus]
    IN  IF FocusInLimits(focus)
        THEN LET copied == [stored EXCEPT !.data = WindowCopy(tm, focus)]
             IN  [tm |-> update_data(copied), panic |-> ~UpdateDataOk, called |-> TRUE,
                  steps |-> <<"focus_coords", "data", "gpu">>]
        ELSE [tm |-> stored, panic |-> TRUE, called |-> TRUE, steps |-> <<"focus_coords">>]

set_focus(tm, focus) ==
    IF FocusInLimits(focus)
    THEN LET copied == [tm EXCEPT !.focus_coords = focus,
                                  !.data = WindowCopy(tm, focus)]
         IN  IF UpdateDataOk
             THEN [tm |-> update_data(copied), panic |-> FALSE, called |-> TRUE,
                   steps |-> <<"focus_coords", "data", "gpu">>]
             ELSE [tm |-> copied, panic |-> TRUE, called |-> TRUE,
                   steps |-> <<"focus_coords", "data">>]
    ELSE [tm |-> tm, panic |-> TRUE, called |-> TRUE, steps |-> <<>>]

\* apply_x_offset that steps forward only past tile_size (> for >=)
NewXPastTileSize(tm, offset_amt) ==
    LET new_offset == F32Add(tm.offsets[1], offset_amt)
    IN  IF new_offset < 0
        THEN IF tm.focus_coords[1] = 0
             THEN <<0, 0>>
             ELSE <<F32Add(TileSizeF, new_offset), tm.focus_coords[1] - 1>>
        ELSE IF tm.focus_coords[1] = limit_coords[1]
             THEN <<0, tm.focus_coords[1]>>
             ELSE IF new_offset > TileSizeF
                  THEN <<F32Sub(new_offset, TileSizeF), tm.focus_coords[1] + 1>>
                  ELSE <<new_offset, tm.focus_coords[1]>>

\* apply_x_offset that keeps the offset below 0 at focus 0
NewXNoClampAtZero(tm, offset_amt) ==
    LET new_offset == F32Add(tm.offsets[1], offset_amt)
    IN  IF new_offset < 0
        THEN IF tm.focus_coords[1] = 0
             THEN <<new_offset, 0>>
             ELSE <<F32Add(TileSizeF, new_offset), tm.focus_coords[1] - 1>>
        ELSE IF tm.focus_coords[1] = limit_coords[1]
             THEN <<0, tm.focus_coords[1]>>
             ELSE IF new_offset >= TileSizeF
                  THEN <<F32Sub(new_offset, TileSizeF), tm.focus_coords[1] + 1>>
                  ELSE <<new_offset, tm.focus_coords[1]>>

\* apply_x_offset that steps forward without taking tile_size off the offset
NewXKeepsOffset(tm, offset_amt) ==
    LET new_offset == F32Add(tm.offsets[1], offset_amt)
    IN  IF new_offset < 0
        THEN IF tm.focus_coords[1] = 0
             THEN <<0, 0>>
             ELSE <<F32Add(TileSizeF, new_offset), tm.focus_coords[1] - 1>>
        ELSE IF tm.focus_coords[1] = limit_coords[1]
             THEN <<0, tm.focus_coords[1]>>
             ELSE IF new_offset >= TileSizeF
                  THEN <<new_offset, tm.focus_coords[1] + 1>>
                  ELSE <<new_offset, tm.focus_coords[1]>>

\* apply_x_offset that steps forward as many tiles as the offset holds
NewXManyTiles(tm, offset_amt) ==
    LET new_offset == F32Add(tm.offsets[1], offset_amt)
        tiles_on == new_offset \div TileSizeF
    IN  IF new_offset < 0
        THEN IF tm.focus_coords[1] = 0
             THEN <<0, 0>>
             ELSE <<F32Add(TileSizeF, new_offset), tm.focus_coords[1] - 1>>
        ELSE IF tm.focus_coords[1] = limit_coords[1]
             THEN <<0, tm.focus_coords[1]>>
             ELSE IF new_offset >= TileSizeF
                  THEN IF tm.focus_coords[1] + tiles_on > limit_coords[1]
                       THEN <<0, limit_coords[1]>>
                       ELSE <<F32Sub(new_offset, tiles_on * TileSizeF),
                              tm.focus_coords[1] + tiles_on>>
                  ELSE <<new_offset, tm.focus_coords[1]>>

\* the if/else chain of apply_x_offset: <<new_offset, new_x>>
NewX(tm, offset_amt) ==
    LET new_offset == F32Add(tm.offsets[1], offset_amt)
    IN  IF new_offset < 0
        THEN IF tm.focus_coords[1] = 0
             THEN <<0, 0>>
             ELSE <<F32Add(TileSizeF, new_offset), tm.focus_coords[1] - 1>>
        ELSE IF tm.focus_coords[1] = limit_coords[1]
             THEN <<0, tm.focus_coords[1]>>
             ELSE IF new_offset >= TileSizeF
                  THEN <<F32Sub(new_offset, TileSizeF), tm.focus_coords[1] + 1>>
                  ELSE <<new_offset, tm.focus_coords[1]>>

\* apply_x_offset that stores the offset before it calls set_focus
apply_x_offsetStoresFirst(tm, offset_amt) ==
    LET curr_focus == tm.focus_coords
        n == NewX(tm, offset_amt)
        stored == [tm EXCEPT !.offsets[1] = n[1]]
        f == IF n[2] # tm.focus_coords[1]
             THEN set_focus(stored, <<n[2], curr_focus[2]>>)
             ELSE [tm |-> stored, panic |-> FALSE, called |-> FALSE, steps |-> <<>>]
    IN  [f EXCEPT !.steps = <<"offsets">> \o @]

apply_x_offset(tm, offset_amt) ==
    LET curr_focus == tm.focus_coords
        n == NewX(tm, offset_amt)
        new_offset == n[1]
        new_x == n[2]
        f == IF new_x # tm.focus_coords[1]
             THEN set_focus(tm, <<new_x, curr_focus[2]>>)
             ELSE [tm |-> tm, panic |-> FALSE, called |-> FALSE, steps |-> <<>>]
    IN  IF f.panic
        THEN f
        ELSE [f EXCEPT !.tm.offsets[1] = new_offset, !.steps = Append(@, "offsets")]

\* apply_y_offset that steps back a tile without adding tile_size to the offset
NewYNoWrap(tm, offset_amt) ==
    LET new_offset == F32Add(tm.offsets[2], offset_amt)
    IN  IF new_offset < 0
        THEN IF tm.focus_coords[2] = 0
             THEN <<0, 0>>
             ELSE <<new_offset, tm.focus_coords[2] - 1>>
        ELSE IF tm.focus_coords[2] = tilemap_size[2] - charmap_size[2]
             THEN <<0, tm.focus_coords[2]>>
             ELSE IF new_offset >= TileSizeF
                  THEN <<F32Sub(new_offset, TileSizeF), tm.focus_coords[2] + 1>>
                  ELSE <<new_offset, tm.focus_coords[2]>>

\* the if/else chain of apply_y_offset: <<new_offset, new_y>>
NewY(tm, offset_amt) ==
    LET new_offset == F32Add(tm.offsets[2], offset_amt)
    IN  IF new_offset < 0
        THEN IF tm.focus_coords[2] = 0
             THEN <<0, 0>>
             ELSE <<F32Add(TileSizeF, new_offset), tm.focus_coords[2] - 1>>
        ELSE IF tm.focus_coords[2] = tilemap_size[2] - charmap_size[2]
             THEN <<0, tm.focus_coords[2]>>
             ELSE IF new_offset >= TileSizeF
                  THEN <<F32Sub(new_offset, TileSizeF), tm.focus_coords[2] + 1>>
                  ELSE <<new_offset, tm.focus_coords[2]>>

\* apply_y_offset that stores its offset with update_x_offset
apply_y_offsetStoresX(tm, offset_amt) ==
    LET curr_focus == tm.focus_coords
        n == NewY(tm, offset_amt)
        f == IF n[2] # tm.focus_coords[2]
             THEN set_focus(tm, <<curr_focus[1], n[2]>>)
             ELSE [tm |-> tm, panic |-> FALSE, called |-> FALSE, steps |-> <<>>]
    IN  IF f.panic
        THEN f
        ELSE [f EXCEPT !.tm.offsets[1] = n[1], !.steps = Append(@, "offsets")]

apply_y_offset(tm, offset_amt) ==
    LET curr_focus == tm.focus_coords
        n == NewY(tm, offset_amt)
        new_offset == n[1]
        new_y == n[2]
        f == IF new_y # tm.focus_coords[2]
             THEN set_focus(tm, <<curr_focus[1], new_y>>)
             ELSE [tm |-> tm, panic |-> FALSE, called |-> FALSE, steps |-> <<>>]
    IN  IF f.panic
        THEN f
        ELSE [f EXCEPT !.tm.offsets[2] = new_offset, !.steps = Append(@, "offsets")]

\* TileMap::update: store the view and draw the batch; the tiles, the buffers,
\* the focus and the offsets are read, not written (the view is not modelled)
tilemap_update(tm) == [tm |-> tm, panic |-> FALSE, called |-> FALSE, steps |-> <<"view">>]

\* set_tile that also writes the viewport cell showing the tile
set_tileWritesViewport(tm, xpos, ypos, data) ==
    LET idx == calc_idx(xpos, ypos)
        cx == xpos - tm.focus_coords[1]
        cy == ypos - tm.focus_coords[2]
        shown == /\ 0 <= cx /\ cx < charmap_size[1]
                 /\ 0 <= cy /\ cy < charmap_size[2]
    IN  IF idx < TilesLen
        THEN [tm |-> [tm EXCEPT !.tiles[idx] = data,
                                !.data = IF shown
                                         THEN [@ EXCEPT ![(cy * charmap_size[1]) + cx] = data]
                                         ELSE @],
              panic |-> FALSE, called |-> FALSE, steps |-> <<"tiles", "data">>]
        ELSE [tm |-> tm, panic |-> TRUE, called |-> FALSE, steps |-> <<>>]

\* set_tile: tiles[idx] = data; indexing a Vec past its end panics
set_tile(tm, xpos, ypos, data) ==
    LET idx == calc_idx(xpos, ypos)
    IN  IF idx < TilesLen
        THEN [tm |-> [tm EXCEPT !.tiles[idx] = data], panic |-> FALSE, called |-> FALSE,
              steps |-> <<"tiles">>]
        ELSE [tm |-> tm, panic |-> TRUE, called |-> FALSE, steps |-> <<>>]

(***************************************************************************)
(* InputHandler.  key_map is a function from the watched keys to their     *)
(* pressed state, key_list the keys in the order they were watched.        *)
(***************************************************************************)
\* VirtualKeyCode: two of the keys main watches
Keys == {"Escape", "W"}
None == "None"

InputHandlerNew == [key_map |-> <<>>, key_list |-> <<>>]

contains_key(h, key) == key \in DOMAIN h.key_map

\* HashMap::insert: add the key or replace its value
insert(m, key, value) == [k \in DOMAIN m \cup {key} |-> IF k = key THEN value ELSE m[k]]

\* the events of the window: key presses and releases, a key press that
\* carries no key code (key_opt is None), and everything else
Events ==
    [state : {"Pressed", "Released"}, key_opt : Keys]
        \cup {[state |-> "Pressed", key_opt |-> None], [state |-> "Other", key_opt |-> None]}

\* update that records a press without asking whether the key is watched
UpdateEventAnyKey(r, event) ==
    IF r.panic \/ event.state = "Other"
    THEN r
    ELSE IF event.key_opt = None
         THEN [r EXCEPT !.panic = TRUE]
         ELSE IF event.state = "Pressed"
              THEN [r EXCEPT !.h.key_map = insert(r.h.key_map, event.key_opt, TRUE)]
              ELSE IF contains_key(r.h, event.key_opt)
                   THEN [r EXCEPT !.h.key_map = insert(r.h.key_map, event.key_opt, FALSE)]
                   ELSE r

\* one turn of the for loop of update: [h, panic, printed]
UpdateEvent(r, event) ==
    IF r.panic \/ event.state = "Other"
    THEN r
    ELSE IF event.key_opt = None
         THEN [r EXCEPT !.panic = TRUE]
         ELSE IF event.state = "Pressed"
              THEN IF contains_key(r.h, event.key_opt)
                   THEN [r EXCEPT !.h.key_map = insert(r.h.key_map, event.key_opt, TRUE)]
                   ELSE [r EXCEPT !.printed = Append(r.printed, event.key_opt)]
              ELSE IF contains_key(r.h, event.key_opt)
                   THEN [r EXCEPT !.h.key_map = insert(r.h.key_map, event.key_opt, FALSE)]
                   ELSE r

RECURSIVE UpdateLoop(_, _)
UpdateLoop(r, events) ==
    IF events = <<>>
    THEN r
    ELSE UpdateLoop(UpdateEvent(r, Head(events)), Tail(events))

update(h, events) == UpdateLoop([h |-> h, panic |-> FALSE, printed |-> <<>>], events)

\* watch that stores the pressed state before it looks the key up
watchStoresFirst(h, key) ==
    [h |-> [key_map |-> insert(h.key_map, key, FALSE),
            key_list |-> IF contains_key(h, key) THEN h.key_list
                         ELSE Append(h.key_list, key)],
     panic |-> contains_key(h, key)]

watch(h, key) ==
    IF contains_key(h, key)
    THEN [h |-> h, panic |-> TRUE]
    ELSE [h |-> [key_map |-> insert(h.key_map, key, FALSE),
                 key_list |-> Append(h.key_list, key)],
          panic |-> FALSE]

\* is_pressed that answers false for a key it does not hold
is_pressedOrFalse(h, key) ==
    IF contains_key(h, key) = FALSE
    THEN [ret |-> FALSE, panic |-> FALSE]
    ELSE [ret |-> h.key_map[key], panic |-> FALSE]

is_pressed(h, key) ==
    IF contains_key(h, key) = FALSE
    THEN [ret |-> FALSE, panic |-> TRUE]
    ELSE [ret |-> h.key_map[key], panic |-> FALSE]

(***************************************************************************)
(* main: the keys it watches, the offset it scrolls by, and the order of   *)
(* the statements of its loop.  The camera (distance, x_pos, y_pos and the *)
(* view made of them) is not modelled: the six camera keys are read and    *)
(* nothing else is done for them.                                          *)
(***************************************************************************)
MainWatched ==
    <<"Escape", "Up", "Down", "Left", "Right", "Equals", "Minus", "W", "S", "A", "D">>
CameraKeys == <<"Equals", "Minus", "Up", "Down", "Left", "Right">>
OffsetAmt == 1 * Unit

RECURSIVE WatchAll(_, _)
WatchAll(h, keys) ==
    IF keys = <<>>
    THEN h
    ELSE WatchAll(watch(h, Head(keys)).h, Tail(keys))

\* the statement after pc in a loop whose statements are order
StepAfter(order, pc) ==
    LET i == CHOOSE j \in 1..Len(order) : order[j] = pc
    IN  order[(i % Len(order)) + 1]

\* a loop that presents before it draws
NextPcPresentFirst(pc) ==
    StepAfter(<<"poll", "escape", "camera", "W", "S", "D", "A", "present", "draw">>, pc)

\* the loop of main, when it does not break
NextPc(pc) ==
    StepAfter(<<"poll", "escape", "camera", "W", "S", "D", "A", "draw", "present">>, pc)

\* the scroll call main makes for a pressed key
ScrollCall(key) ==
    CASE key = "W" -> [op |-> "apply_y_offset", arg |-> OffsetAmt]
      [] key = "S" -> [op |-> "apply_y_offset", arg |-> -OffsetAmt]
      [] key = "D" -> [op |-> "apply_x_offset", arg |-> OffsetAmt]
      [] key = "A" -> [op |-> "apply_x_offset", arg |-> -OffsetAmt]

\* what an iteration has done so far is a sequence of these
Step(op, arg) == [op |-> op, arg |-> arg]

(***************************************************************************)
(* The record of the operation that led to a state.                        *)
(***************************************************************************)
NoPrev == [op |-> "none", arg |-> <<>>]

Did(op, arg, called, steps, ret, printed, prev) ==
    [op |-> op, arg |-> arg, called |-> called, steps |-> steps, ret |-> ret,
     printed |-> printed,
     uploaded |-> last.uploaded \/ (\E i \in DOMAIN steps : steps[i] = "gpu"),
     pre_focus |-> IF op \in {"apply_x_offset", "apply_y_offset"}
                   THEN tilemap.focus_coords ELSE <<0, 0>>,
     pre_offsets |-> IF op \in {"apply_x_offset", "apply_y_offset"}
                     THEN tilemap.offsets ELSE <<0, 0>>,
     prev |-> prev]

NoEvent == "none"

\* the events update gets through before it returns or panics
RECURSIVE Delivered(_)
Delivered(events) ==
    IF events = <<>>
    THEN <<>>
    ELSE IF Head(events).state # "Other" /\ Head(events).key_opt = None
         THEN <<>>
         ELSE <<Head(events)>> \o Delivered(Tail(events))

\* the latest press/release event for key among events, or before if none
RECURSIVE Latest(_, _, _)
Latest(events, key, before) ==
    IF events = <<>>
    THEN before
    ELSE IF Head(events).state # "Other" /\ Head(events).key_opt = key
         THEN Latest(Tail(events), key, Head(events).state)
         ELSE Latest(Tail(events), key, before)

NoRun == [axis |-> 0, start |-> 0, sum |-> 0, exact |-> TRUE]

\* the run after apply_x_offset (axis 1) or apply_y_offset (axis 2) with offset_amt
RunAfter(axis, offset_amt) ==
    IF run.axis = axis /\ offset_amt > 0 /\ offset_amt < TileSizeF /\ run.sum < TileSizeF
    THEN [run EXCEPT !.sum = @ + offset_amt,
                     !.exact = @ /\ RoundF32(run.sum + offset_amt) = run.sum + offset_amt]
    ELSE NoRun

(***************************************************************************)
(* Inputs.                                                                 *)
(***************************************************************************)
\* TileMapData written by set_tile
Payloads == {<<5, 0, 0, 0>>, <<1, 7, 0, 0>>}
\* what the GPU buffer may hold before the first upload
Garbage == <<9, 9, 9, 9>>
\* tile coordinates: in the grid, and one past it on either axis
TileCoords ==
    {<<0, 0>>, <<1, 1>>, <<tilemap_size[1] - 1, tilemap_size[2] - 1>>,
     <<tilemap_size[1], 0>>, <<tilemap_size[1], tilemap_size[2] - 1>>,
     <<0, tilemap_size[2]>>}
\* focus arguments, one past the limit on each axis
Foci == (0..(limit_coords[1] + 1)) \X (0..(limit_coords[2] + 1))
\* focus arguments while scrolling: the two far corners, and past the limit
ScrollFoci ==
    {<<0, 0>>, limit_coords, <<limit_coords[1] + 1, 0>>, <<0, limit_coords[2] + 1>>}
\* offset_amt in whole pixels (main passes 1.0 and -1.0), within a tile and beyond
PixelDeltas == {-40 * Unit, -8 * Unit, 8 * Unit, 40 * Unit}
\* offset_amt off the pixel grid: 2^-20, and 16 less 2^-20
FineDeltas == {1, (16 * Unit) - 1}
\* forward offset_amt below tile_size
RunDeltas == {8 * Unit, 16 * Unit} \cup FineDeltas
\* set_tile and offset_amt arguments while the grid is written and scrolled
MapCoords == {<<1, 1>>}
MapDeltas == {-40 * Unit, 40 * Unit}
\* what poll_events may hold in main: events for Escape and the scroll keys
MainKeys == {"Escape", "W", "S", "A", "D"}
MainEvents ==
    [state : {"Pressed", "Released"}, key_opt : MainKeys]
        \cup {[state |-> "Pressed", key_opt |-> None], [state |-> "Other", key_opt |-> None]}
PollLists == UNION {[1..n -> MainEvents] : n \in 0..MaxPoll}
EventLists == UNION {[1..n -> Events] : n \in 0..MaxEvents}

(***************************************************************************)
(* Actions: one call of an operation by the owner of tilemap and handler.  *)
(***************************************************************************)
SetTile(xpos, ypos, data) ==
    /\ ~panicked
    /\ nset < MaxSetTile
    /\ LET r == set_tile(tilemap, xpos, ypos, data)
       IN  /\ tilemap' = r.tm
           /\ panicked' = r.panic
           /\ last' = Did("set_tile", <<xpos, ypos, data>>, r.called, r.steps, FALSE, <<>>, NoPrev)
    /\ nset' = nset + 1
    /\ run' = NoRun
    /\ UNCHANGED <<handler, since, nfocus, nfine, main>>

SetFocus(focus) ==
    /\ ~panicked
    /\ nfocus < MaxSetFocus
    /\ nfocus' = nfocus + 1
    /\ LET r == set_focus(tilemap, focus)
       IN  /\ tilemap' = r.tm
           /\ panicked' = r.panic
           /\ last' = Did("set_focus", focus, r.called, r.steps, FALSE, <<>>,
                          IF last.op = "set_tile"
                          THEN [op |-> last.op, arg |-> last.arg]
                          ELSE NoPrev)
    /\ run' = NoRun
    /\ UNCHANGED <<handler, since, nset, nfine, main>>

ApplyXOffset(offset_amt) ==
    /\ ~panicked
    /\ LET r == apply_x_offset(tilemap, offset_amt)
       IN  /\ tilemap' = r.tm
           /\ panicked' = r.panic
           /\ last' = Did("apply_x_offset", offset_amt, r.called, r.steps, FALSE, <<>>, NoPrev)
    /\ run' = RunAfter(1, offset_amt)
    /\ nfine' = IF offset_amt \in FineDeltas THEN nfine + 1 ELSE nfine
    /\ UNCHANGED <<handler, since, nset, nfocus, main>>

ApplyYOffset(offset_amt) ==
    /\ ~panicked
    /\ LET r == apply_y_offset(tilemap, offset_amt)
       IN  /\ tilemap' = r.tm
           /\ panicked' = r.panic
           /\ last' = Did("apply_y_offset", offset_amt, r.called, r.steps, FALSE, <<>>, NoPrev)
    /\ run' = RunAfter(2, offset_amt)
    /\ nfine' = IF offset_amt \in FineDeltas THEN nfine + 1 ELSE nfine
    /\ UNCHANGED <<handler, since, nset, nfocus, main>>

Draw ==
    /\ ~panicked
    /\ LET r == tilemap_update(tilemap)
       IN  /\ tilemap' = r.tm
           /\ panicked' = r.panic
           /\ last' = Did("draw", <<>>, r.called, r.steps, FALSE, <<>>, NoPrev)
    /\ run' = NoRun
    /\ UNCHANGED <<handler, since, nset, nfocus, nfine, main>>

Watch(key) ==
    /\ ~panicked
    /\ LET r == watch(handler, key)
       IN  /\ handler' = r.h
           /\ panicked' = r.panic
           /\ last' = Did("watch", key, FALSE, <<>>, FALSE, <<>>, NoPrev)
    /\ since' = [since EXCEPT ![key] = NoEvent]
    /\ UNCHANGED <<tilemap, run, nset, nfocus, nfine, main>>

Update(events) ==
    /\ ~panicked
    /\ LET r == update(handler, events)
       IN  /\ handler' = r.h
           /\ panicked' = r.panic
           /\ last' = Did("update", events, FALSE, <<>>, FALSE, r.printed, NoPrev)
    /\ since' = [k \in Keys |-> Latest(Delivered(events), k, since[k])]
    /\ UNCHANGED <<tilemap, run, nset, nfocus, nfine, main>>

IsPressed(key) ==
    /\ ~panicked
    /\ LET r == is_pressed(handler, key)
       IN  /\ panicked' = r.panic
           /\ last' = Did("is_pressed", key, FALSE, <<>>, r.ret, <<>>, NoPrev)
    /\ UNCHANGED <<tilemap, handler, since, run, nset, nfocus, nfine, main>>

(***************************************************************************)
(* The statements of the loop of main, one action each.                    *)
(***************************************************************************)
MainUpdate(events) ==
    /\ ~panicked
    /\ main.pc = "poll"
    /\ main.frame < MaxFrames
    /\ LET r == update(handler, events)
       IN  /\ handler' = r.h
           /\ panicked' = r.panic
           /\ last' = Did("update", events, FALSE, <<>>, FALSE, r.printed, NoPrev)
    /\ since' = [k \in Keys |-> Latest(Delivered(events), k, since[k])]
    /\ main' = [pc |-> NextPc(main.pc), frame |-> main.frame + 1,
                trail |-> <<Step("update", 0)>>]
    /\ UNCHANGED <<tilemap, run, nset, nfocus, nfine>>

MainEscape ==
    /\ ~panicked
    /\ main.pc = "escape"
    /\ LET r == is_pressed(handler, "Escape")
       IN  /\ panicked' = r.panic
           /\ last' = Did("is_pressed", "Escape", FALSE, <<>>, r.ret, <<>>, NoPrev)
           /\ main' = [main EXCEPT !.pc = IF r.ret THEN "done" ELSE NextPc(main.pc)]
    /\ UNCHANGED <<tilemap, handler, since, run, nset, nfocus, nfine>>

MainCamera ==
    /\ ~panicked
    /\ main.pc = "camera"
    /\ panicked' = (\E i \in DOMAIN CameraKeys : is_pressed(handler, CameraKeys[i]).panic)
    /\ last' = Did("is_pressed", CameraKeys[Len(CameraKeys)], FALSE, <<>>,
                   is_pressed(handler, CameraKeys[Len(CameraKeys)]).ret, <<>>, NoPrev)
    /\ main' = [main EXCEPT !.pc = NextPc(main.pc)]
    /\ UNCHANGED <<tilemap, handler, since, run, nset, nfocus, nfine>>

MainScroll ==
    /\ ~panicked
    /\ main.pc \in {"W", "S", "D", "A"}
    /\ LET p == is_pressed(handler, main.pc)
           c == ScrollCall(main.pc)
           r == IF c.op = "apply_y_offset"
                THEN apply_y_offset(tilemap, c.arg)
                ELSE apply_x_offset(tilemap, c.arg)
       IN  IF p.ret
           THEN /\ tilemap' = r.tm
                /\ panicked' = r.panic
                /\ last' = Did(c.op, c.arg, r.called, r.steps, FALSE, <<>>, NoPrev)
                /\ main' = [main EXCEPT !.pc = NextPc(main.pc),
                                        !.trail = Append(@, Step(c.op, c.arg))]
           ELSE /\ tilemap' = tilemap
                /\ panicked' = p.panic
                /\ last' = Did("is_pressed", main.pc, FALSE, <<>>, p.ret, <<>>, NoPrev)
                /\ main' = [main EXCEPT !.pc = NextPc(main.pc)]
    /\ run' = NoRun
    /\ UNCHANGED <<handler, since, nset, nfocus, nfine>>

\* the view, stream.clear and tilemap.update
MainDraw ==
    /\ ~panicked
    /\ main.pc = "draw"
    /\ LET r == tilemap_update(tilemap)
       IN  /\ tilemap' = r.tm
           /\ panicked' = r.panic
           /\ last' = Did("draw", <<>>, r.called, r.steps, FALSE, <<>>, NoPrev)
    /\ main' = [main EXCEPT !.pc = NextPc(main.pc), !.trail = Append(@, Step("draw", 0))]
    /\ UNCHANGED <<handler, since, run, nset, nfocus, nfine>>

MainPresent ==
    /\ ~panicked
    /\ main.pc = "present"
    /\ last' = Did("present", <<>>, FALSE, <<>>, FALSE, <<>>, NoPrev)
    /\ main' = [main EXCEPT !.pc = NextPc(main.pc), !.trail = Append(@, Step("present", 0))]
    /\ UNCHANGED <<tilemap, handler, panicked, since, run, nset, nfocus, nfine>>

(***************************************************************************)
(* Initial states.                                                         *)
(***************************************************************************)
Started(uploaded) ==
    /\ panicked = FALSE
    /\ last = [op |-> "new", arg |-> <<>>, called |-> FALSE, steps |-> <<>>, ret |-> FALSE,
               printed |-> <<>>, uploaded |-> uploaded, pre_focus |-> <<0, 0>>, pre_offsets |-> <<0, 0>>,
               prev |-> NoPrev]
    /\ since = [k \in Keys |-> NoEvent]
    /\ nset = 0
    /\ nfocus = 0
    /\ nfine = 0
    /\ main = [pc |-> "poll", frame |-> 0, trail |-> <<>>]

Constructed(uploaded) ==
    /\ handler = InputHandlerNew
    /\ Started(uploaded)

\* a grid in which every tile differs, as a run of set_tile calls leaves it
Populated(tm) ==
    [tm EXCEPT !.tiles = [i \in 0..(TilesLen - 1) |->
                             <<1 + (i % tilemap_size[1]), 1 + (i \div tilemap_size[1]), 0, 0>>]]

\* after TileMap::new
InitGrid ==
    /\ tilemap \in {TileMapNew(g) : g \in {new_empty, Garbage}}
    /\ run = NoRun
    /\ Constructed(FALSE)

\* after TileMap::new, the GPU buffer not yet written
InitMap ==
    /\ tilemap = TileMapNew(Garbage)
    /\ run = NoRun
    /\ Constructed(FALSE)

\* after TileMap::new, the tiles set and set_focus([0,0]), as main does
InitScroll ==
    /\ tilemap = set_focus(Populated(TileMapNew(Garbage)), <<0, 0>>).tm
    /\ run = NoRun
    /\ Constructed(TRUE)

\* a populated grid with the focus set somewhere and offsets [0.0, 0.0],
\* at the start of a run of forward offsets on one axis
InitRun ==
    /\ \E focus \in {f \in Foci : FocusInLimits(f)} :
          tilemap = set_focus(Populated(TileMapNew(Garbage)), focus).tm
    /\ \E axis \in 1..2 :
          run = [axis |-> axis, start |-> tilemap.focus_coords[axis], sum |-> 0,
                 exact |-> TRUE]
    /\ Constructed(TRUE)

\* main at the head of its loop: the tiles set, set_focus([0,0]) done and
\* the keys watched
InitMain ==
    /\ tilemap = set_focus(Populated(TileMapNew(Garbage)), <<0, 0>>).tm
    /\ handler = WatchAll(InputHandlerNew, MainWatched)
    /\ run = NoRun
    /\ Started(TRUE)

(***************************************************************************)
(* Specifications.  SpecGrid: the grid is written and the focus set.       *)
(* SpecScroll: a populated grid is scrolled.  SpecRun: runs of forward     *)
(* offsets on one axis up to tile_size.  SpecInput: the InputHandler.      *)
(***************************************************************************)
NextGrid ==
    \/ \E c \in TileCoords, data \in Payloads : SetTile(c[1], c[2], data)
    \/ \E focus \in Foci : SetFocus(focus)

NextScroll ==
    \/ \E focus \in ScrollFoci : SetFocus(focus)
    \/ \E offset_amt \in PixelDeltas \cup {1} :
          (offset_amt \in FineDeltas => nfine < MaxFine) /\ ApplyXOffset(offset_amt)
    \/ \E offset_amt \in PixelDeltas \cup {1} :
          (offset_amt \in FineDeltas => nfine < MaxFine) /\ ApplyYOffset(offset_amt)

NextRun ==
    \/ \E offset_amt \in RunDeltas :
          /\ run.axis = 1 /\ run.sum < TileSizeF
          /\ offset_amt \in FineDeltas => nfine < MaxRunFine
          /\ ApplyXOffset(offset_amt)
    \/ \E offset_amt \in RunDeltas :
          /\ run.axis = 2 /\ run.sum < TileSizeF
          /\ offset_amt \in FineDeltas => nfine < MaxRunFine
          /\ ApplyYOffset(offset_amt)

NextMap ==
    \/ \E c \in MapCoords, data \in Payloads :
          nset < MaxMapSetTile /\ SetTile(c[1], c[2], data)
    \/ \E focus \in ScrollFoci : SetFocus(focus)
    \/ \E offset_amt \in MapDeltas : ApplyXOffset(offset_amt)
    \/ \E offset_amt \in MapDeltas : ApplyYOffset(offset_amt)
    \/ Draw

NextInput ==
    \/ \E key \in Keys : Watch(key)
    \/ \E events \in EventLists : Update(events)
    \/ \E key \in Keys : IsPressed(key)

SpecGrid == InitGrid /\ [][NextGrid]_vars
SpecScroll == InitScroll /\ [][NextScroll]_vars
SpecRun == InitRun /\ [][NextRun]_vars
SpecInput == InitGrid /\ [][NextInput]_vars
SpecMap == InitMap /\ [][NextMap]_vars

NextMain ==
    \/ \E events \in PollLists : MainUpdate(events)
    \/ MainEscape
    \/ MainCamera
    \/ MainScroll
    \/ MainDraw
    \/ MainPresent

SpecMain == InitMain /\ [][NextMain]_vars

(***************************************************************************)
(* Properties.                                                             *)
(***************************************************************************)
InGrid(xpos, ypos) == xpos < tilemap_size[1] /\ ypos < tilemap_size[2]

\* C1: after set_focus(f) with f within the limits, focus_coords is f and
\* viewport cell (cx, cy) holds logical cell (f[0]+cx, f[1]+cy), for every
\* cx < w and cy < h.
C1_SetFocusCopiesWindow ==
    (last.op = "set_focus" /\ FocusInLimits(last.arg)) =>
        /\ ~panicked
        /\ tilemap.focus_coords = last.arg
        /\ \A cx \in 0..(charmap_size[1] - 1), cy \in 0..(charmap_size[2] - 1) :
              tilemap.data[(cy * charmap_size[1]) + cx] =
                  tilemap.tiles[((last.arg[2] + cy) * tilemap_size[1]) + (last.arg[1] + cx)]

\* a set_focus away from the origin over a grid that holds a written tile,
\* which the window shows
C1_Witness ==
    /\ last.op = "set_focus"
    /\ FocusInLimits(last.arg)
    /\ last.arg[1] > 0 /\ last.arg[2] > 0
    /\ \E i \in DOMAIN tilemap.data : tilemap.data[i] \in Payloads
    /\ \E i \in DOMAIN tilemap.data : tilemap.data[i] = new_empty

\* C2: after any sequence of apply_x_offset and apply_y_offset calls from
\* offsets [0, 0], each offset o satisfies 0 <= o < tile_size.
C2_OffsetWithinTile ==
    nfocus = 0 =>
        \A axis \in 1..2 :
            0 <= tilemap.offsets[axis] /\ tilemap.offsets[axis] < TileSizeF

\* C3 as stated: a run of forward offsets on one axis, each below tile_size,
\* that begins at offset 0 below the limit and sums to exactly tile_size,
\* ends one focus further with offset 0.
C3_RunOfTileSize ==
    (run.axis # 0 /\ run.start < limit_coords[run.axis] /\ run.sum = TileSizeF) =>
        /\ tilemap.focus_coords[run.axis] = run.start + 1
        /\ tilemap.offsets[run.axis] = 0

\* C3 as amended: the same, for the runs in which every f32 sum of the
\* offset so far and the next delta is exact (whole pixels, for one).
C3_ExactRunOfTileSize ==
    (run.axis # 0 /\ run.start < limit_coords[run.axis] /\ run.sum = TileSizeF /\ run.exact) =>
        /\ tilemap.focus_coords[run.axis] = run.start + 1
        /\ tilemap.offsets[run.axis] = 0

\* a run of three or more calls, two of them off the pixel grid, has summed
\* to tile_size with every sum exact
C3_Witness ==
    /\ run.axis # 0 /\ run.start < limit_coords[run.axis]
    /\ run.sum = TileSizeF /\ run.exact
    /\ nfine = MaxRunFine
    /\ last.called
    /\ tilemap.focus_coords[run.axis] = run.start + 1

ApplyOp(axis) == IF axis = 1 THEN "apply_x_offset" ELSE "apply_y_offset"

\* the f32 sum the last apply_*_offset call began with
Accumulated(axis) == F32Add(last.pre_offsets[axis], last.arg)

\* C4 as stated: focus never exceeds limit_coords, and at the limit a forward
\* delta leaves the focus where it is and the offset 0.
C4_FocusWithinLimit ==
    \A axis \in 1..2 :
        /\ tilemap.focus_coords[axis] <= limit_coords[axis]
        /\ (last.op = ApplyOp(axis) /\ ~panicked
              /\ last.pre_focus[axis] = limit_coords[axis] /\ last.arg > 0) =>
               /\ tilemap.focus_coords[axis] = limit_coords[axis]
               /\ tilemap.offsets[axis] = 0

\* C5: focus never goes below 0, and at focus 0 an accumulated offset below
\* 0 leaves the focus 0, sets the offset 0 and does not call set_focus.
C5_FocusNotBelowZero ==
    \A axis \in 1..2 :
        /\ tilemap.focus_coords[axis] >= 0
        /\ (last.op = ApplyOp(axis) /\ last.pre_focus[axis] = 0 /\ Accumulated(axis) < 0) =>
               /\ ~panicked
               /\ tilemap.focus_coords[axis] = 0
               /\ tilemap.offsets[axis] = 0
               /\ ~last.called

\* a backward delta at focus 0 that more than uses up the offset built so far
C5_Witness ==
    \E axis \in 1..2 :
        /\ last.op = ApplyOp(axis)
        /\ last.pre_focus[axis] = 0
        /\ last.pre_offsets[axis] > 0
        /\ Accumulated(axis) < 0
        /\ tilemap.offsets[axis] = 0

\* C6: below the limit, an accumulated offset o+delta of tile_size or more
\* moves the focus one tile on and leaves the offset (o+delta) - tile_size
\* (f32 arithmetic); from focus [0,0] and offset 0, apply_x_offset(40.0)
\* gives focus [1,0] and x offset 8.0.
C6_ForwardStep ==
    /\ \A axis \in 1..2 :
          (last.op = ApplyOp(axis) /\ last.pre_focus[axis] < limit_coords[axis]
             /\ Accumulated(axis) >= TileSizeF) =>
              /\ ~panicked
              /\ tilemap.focus_coords[axis] = last.pre_focus[axis] + 1
              /\ tilemap.offsets[axis] = F32Sub(Accumulated(axis), TileSizeF)
    /\ (last.op = "apply_x_offset" /\ last.pre_focus = <<0, 0>>
          /\ last.pre_offsets[1] = 0 /\ last.arg = 40 * Unit) =>
           (tilemap.focus_coords = <<1, 0>> /\ tilemap.offsets[1] = 8 * Unit)

\* the example: apply_x_offset(40.0) from focus [0,0] and offset 0
C6_Witness ==
    /\ last.op = "apply_x_offset"
    /\ last.pre_focus = <<0, 0>> /\ last.pre_offsets[1] = 0
    /\ last.arg = 40 * Unit
    /\ tilemap.focus_coords = <<1, 0>>
    /\ tilemap.offsets[1] = 8 * Unit

\* the window at focus holds logical tile (xpos, ypos)
InWindow(focus, xpos, ypos) ==
    /\ focus[1] <= xpos /\ xpos < focus[1] + charmap_size[1]
    /\ focus[2] <= ypos /\ ypos < focus[2] + charmap_size[2]

C7_AfterSetTile ==
    (last.op = "set_focus" /\ ~panicked /\ last.prev.op = "set_tile") =>
        LET xpos == last.prev.arg[1]
            ypos == last.prev.arg[2]
        IN  (InGrid(xpos, ypos) /\ InWindow(last.arg, xpos, ypos)) =>
                tilemap.data[((ypos - last.arg[2]) * charmap_size[1]) + (xpos - last.arg[1])]
                    = last.prev.arg[3]

C7_SetTileStep ==
    (last'.op = "set_tile" /\ InGrid(last'.arg[1], last'.arg[2])) =>
        /\ ~panicked'
        /\ tilemap'.tiles =
               [tilemap.tiles EXCEPT ![(last'.arg[2] * tilemap_size[1]) + last'.arg[1]] =
                                         last'.arg[3]]

\* C7: set_tile(x, y, p) within the grid overwrites the record at y*W+x and
\* no other, and a set_focus(f) that follows and whose window holds (x, y)
\* puts p at viewport index (y-f[1])*w + (x-f[0]).
C7_SetTileThenSetFocus == []C7_AfterSetTile /\ [][C7_SetTileStep]_vars

\* a tile written away from the origin, then a set_focus away from the
\* origin that shows it
C7_Witness ==
    /\ last.op = "set_focus" /\ ~panicked /\ last.prev.op = "set_tile"
    /\ last.arg # <<0, 0>>
    /\ InGrid(last.prev.arg[1], last.prev.arg[2])
    /\ InWindow(last.arg, last.prev.arg[1], last.prev.arg[2])
    /\ last.prev.arg[1] > last.arg[1]
    /\ tilemap.data[((last.prev.arg[2] - last.arg[2]) * charmap_size[1])
                      + (last.prev.arg[1] - last.arg[1])] = last.prev.arg[3]

C8_SetFocusStep ==
    (last'.op = "set_focus" /\ ~FocusInLimits(last'.arg)) =>
        (panicked' /\ tilemap' = tilemap)

\* C8: set_focus with a focus past limit_coords on either axis panics, with
\* focus_coords, the viewport buffer, the GPU buffer and the offsets as they
\* were before the call.
C8_SetFocusPastLimit == [][C8_SetFocusStep]_vars

\* set_focus past the limit has panicked after the map was scrolled away
\* from focus [0,0] and offset 0
C8_Witness ==
    /\ panicked
    /\ last.op = "set_focus" /\ ~FocusInLimits(last.arg)
    /\ tilemap.focus_coords # <<0, 0>>
    /\ tilemap.offsets[1] # 0

C9_SetTileStep ==
    (last'.op = "set_tile" /\ ~InGrid(last'.arg[1], last'.arg[2])) =>
        (panicked' /\ tilemap'.tiles = tilemap.tiles)

\* C9 as stated: set_tile with x >= W or y >= H panics and overwrites no
\* record of the logical grid.
C9_SetTileOutsideGrid == [][C9_SetTileStep]_vars

C10_Pressed ==
    ~panicked =>
        \A key \in DOMAIN handler.key_map :
            /\ ~is_pressed(handler, key).panic
            /\ is_pressed(handler, key).ret = (since[key] = "Pressed")

\* every key event of the list is for a key that is not watched
ForUnwatched(h, events) ==
    \A i \in DOMAIN events :
        events[i].state = "Other" \/ events[i].key_opt \notin DOMAIN h.key_map

C10_UpdateStep ==
    last'.op = "update" =>
        /\ DOMAIN handler'.key_map = DOMAIN handler.key_map
        /\ handler'.key_list = handler.key_list
        /\ ForUnwatched(handler, last'.arg) => handler' = handler

\* C10: for a watched key k, is_pressed(k) is false if no event for k came
\* since watch(k) and otherwise tells whether the latest one was a press;
\* events for unwatched keys change no key's state and watch no key.
C10_PressedIsLatestEvent == []C10_Pressed /\ [][C10_UpdateStep]_vars

\* one update delivered a press of a watched key, which is_pressed now
\* reports, and an event for a key that is not watched
C10_Witness ==
    /\ last.op = "update" /\ ~panicked
    /\ \E key \in DOMAIN handler.key_map :
          /\ handler.key_map[key]
          /\ \E i \in DOMAIN last.arg : last.arg[i] = [state |-> "Pressed", key_opt |-> key]
    /\ \E i \in DOMAIN last.arg :
          last.arg[i].state # "Other" /\ last.arg[i].key_opt \in Keys \ DOMAIN handler.key_map

\* the keys watch has registered, in order
Watched(key) == \E i \in 1..Len(handler.key_list) : handler.key_list[i] = key

\* a watch call, by whether the key map held the key before it
C11_WatchStep ==
    last'.op = "watch" =>
        IF last'.arg \in DOMAIN handler.key_map
        THEN /\ panicked'
             /\ handler'.key_map = handler.key_map
             /\ handler'.key_list = handler.key_list
        ELSE /\ ~panicked'
             /\ DOMAIN handler'.key_map = DOMAIN handler.key_map \cup {last'.arg}
             /\ handler'.key_map[last'.arg] = FALSE
             /\ \A k \in DOMAIN handler.key_map : handler'.key_map[k] = handler.key_map[k]
             /\ handler'.key_list = Append(handler.key_list, last'.arg)

\* C11: watch(key) for a key already registered panics and leaves the key's
\* pressed state and the key list as they were; watch(key) for a key not
\* registered registers it with pressed state false and appends it to the
\* key list, the other keys keeping their state.
C11_WatchRegistersOnce == [][C11_WatchStep]_vars

\* a second watch of a key that is held down has panicked, the key still
\* pressed and listed once
C11_Witness ==
    /\ last.op = "watch"
    /\ panicked
    /\ handler.key_map[last.arg] = TRUE
    /\ handler.key_list = <<last.arg>>

\* C12: is_pressed(key) for a key that watch never registered panics, whatever
\* press and release events for the key update has been given.
C12_IsPressedUnwatched ==
    (last.op = "is_pressed" /\ ~Watched(last.arg)) => panicked

\* is_pressed has panicked for a key never watched whose latest event is a press
C12_Witness ==
    /\ last.op = "is_pressed"
    /\ ~Watched(last.arg)
    /\ since[last.arg] = "Pressed"
    /\ panicked
    /\ Len(handler.key_list) > 0

\* the viewport buffer holds the window of the grid at focus
ViewportAt(focus) ==
    \A cx \in 0..(charmap_size[1] - 1), cy \in 0..(charmap_size[2] - 1) :
        tilemap.data[(cy * charmap_size[1]) + cx] =
            tilemap.tiles[((focus[2] + cy) * tilemap_size[1]) + (focus[1] + cx)]

\* the axis an apply_*_offset call does not name
Other(axis) == 3 - axis

\* C13: when the accumulated offset o+delta is below 0 and the focus on the
\* axis is above 0, apply_*_offset lowers that focus by exactly one, leaves the
\* other axis's focus alone, stores tile_size + (o+delta) as the offset (f32
\* arithmetic) and calls set_focus with the lowered focus, so the viewport
\* holds the window there.
C13_BackwardStep ==
    \A axis \in 1..2 :
        (last.op = ApplyOp(axis) /\ Accumulated(axis) < 0 /\ last.pre_focus[axis] > 0) =>
            /\ ~panicked
            /\ tilemap.focus_coords[axis] = last.pre_focus[axis] - 1
            /\ tilemap.focus_coords[Other(axis)] = last.pre_focus[Other(axis)]
            /\ tilemap.offsets[axis] = F32Add(TileSizeF, Accumulated(axis))
            /\ last.called
            /\ ViewportAt(tilemap.focus_coords)

\* apply_y_offset(-8.0) at focus [1,1] with y offset 0 has stepped back to
\* row 0 with offset 24.0
C13_Witness ==
    /\ last.op = "apply_y_offset"
    /\ last.arg = -8 * Unit
    /\ last.pre_focus = <<1, 1>> /\ last.pre_offsets[2] = 0
    /\ tilemap.focus_coords = <<1, 0>>
    /\ tilemap.offsets[2] = 24 * Unit
    /\ last.called

\* C14 as stated: with the focus on an axis at its limit, apply_*_offset with
\* delta <= 0 and 0 <= o+delta < tile_size leaves the focus unchanged and
\* stores o+delta as the offset.
C14_PanAtLimit ==
    \A axis \in 1..2 :
        (last.op = ApplyOp(axis) /\ last.pre_focus[axis] = limit_coords[axis]
           /\ last.arg <= 0 /\ 0 <= Accumulated(axis) /\ Accumulated(axis) < TileSizeF) =>
            /\ ~panicked
            /\ tilemap.focus_coords = last.pre_focus
            /\ tilemap.offsets[axis] = Accumulated(axis)

\* GPU records [0, w*h) hold the window of the grid at focus
UploadedAt(focus) ==
    \A cx \in 0..(charmap_size[1] - 1), cy \in 0..(charmap_size[2] - 1) :
        tilemap.gpu[(cy * charmap_size[1]) + cx] =
            tilemap.tiles[((focus[2] + cy) * tilemap_size[1]) + (focus[1] + cx)]

\* C15: apply_*_offset calls set_focus exactly when the focus on its axis
\* changes, and then the focus, the viewport buffer and the GPU buffer are
\* written before the offset; between calls, where the draws are, the GPU
\* buffer holds the window at the focus the offsets were stored with.
C15_SetFocusBeforeOffset ==
    /\ \A axis \in 1..2 :
          (last.op = ApplyOp(axis) /\ ~panicked) =>
              /\ last.called <=> tilemap.focus_coords # last.pre_focus
              /\ last.steps = IF last.called
                              THEN <<"focus_coords", "data", "gpu", "offsets">>
                              ELSE <<"offsets">>
    /\ UploadedAt(tilemap.focus_coords)

\* apply_x_offset has moved the focus on from [1,0], uploaded the window
\* there and then stored a new x offset
C15_Witness ==
    /\ last.op = "apply_x_offset"
    /\ last.called
    /\ last.pre_focus = <<1, 0>>
    /\ tilemap.focus_coords = <<2, 0>>
    /\ tilemap.offsets[1] # last.pre_offsets[1]
    /\ last.steps = <<"focus_coords", "data", "gpu", "offsets">>
    /\ UploadedAt(<<2, 0>>)

\* C16: a set_focus that does not panic copies the window and then uploads
\* the viewport buffer from record 0, leaving the GPU records past w*h alone;
\* so once a set_focus has uploaded, direct or from apply_*_offset, GPU
\* records [0, w*h) equal the viewport buffer in every state between calls
\* of set_tile, set_focus, apply_*_offset and update.
C16_UploadedViewport ==
    /\ (last.called /\ ~panicked) =>
          /\ SubSeq(last.steps, 1, 3) = <<"focus_coords", "data", "gpu">>
          /\ tilemap.gpu[CharmapLen] = Garbage
    /\ last.uploaded =>
          \A i \in 0..(CharmapLen - 1) : tilemap.gpu[i] = tilemap.data[i]

\* after a set_tile of a payload and a focus-changing apply_y_offset the
\* viewport buffer holds the payload and the GPU records equal it
C16_Witness ==
    /\ last.op = "apply_y_offset"
    /\ last.called /\ ~panicked
    /\ last.uploaded
    /\ \E i \in 0..(CharmapLen - 1) : tilemap.data[i] \in Payloads
    /\ \A i \in 0..(CharmapLen - 1) : tilemap.gpu[i] = tilemap.data[i]
    /\ tilemap.gpu[CharmapLen] = Garbage

\* C17: one apply_x_offset or apply_y_offset call moves the focus on its
\* axis by at most one tile, whatever the size of the delta.
C17_OneTilePerCall ==
    \A axis \in 1..2 :
        last.op = ApplyOp(axis) =>
            /\ tilemap.focus_coords[axis] - last.pre_focus[axis] <= 1
            /\ last.pre_focus[axis] - tilemap.focus_coords[axis] <= 1

\* apply_x_offset(40.0) at x offset 24.0 accumulates two tile widths and has
\* moved the focus one tile, leaving offset 32.0
C17_Witness ==
    /\ last.op = "apply_x_offset"
    /\ last.arg = 40 * Unit
    /\ last.pre_offsets[1] = 24 * Unit
    /\ tilemap.focus_coords[1] = last.pre_focus[1] + 1
    /\ tilemap.offsets[1] = 32 * Unit

\* the scroll calls an iteration makes with the keys as h holds them
ScrollsFor(h) ==
    (IF h.key_map["W"] THEN <<Step("apply_y_offset", OffsetAmt)>> ELSE <<>>)
        \o (IF h.key_map["S"] THEN <<Step("apply_y_offset", -OffsetAmt)>> ELSE <<>>)
        \o (IF h.key_map["D"] THEN <<Step("apply_x_offset", OffsetAmt)>> ELSE <<>>)
        \o (IF h.key_map["A"] THEN <<Step("apply_x_offset", -OffsetAmt)>> ELSE <<>>)

C18_Iteration ==
    /\ (main.pc = "poll" /\ main.frame > 0) =>
          /\ ~handler.key_map["Escape"]
          /\ main.trail = <<Step("update", 0)>> \o ScrollsFor(handler)
                              \o <<Step("draw", 0), Step("present", 0)>>
    /\ main.pc = "done" =>
          /\ handler.key_map["Escape"]
          /\ main.trail = <<Step("update", 0)>>
    /\ (~panicked /\ main.pc # "done" /\ ~(main.pc = "poll" /\ main.frame = MaxFrames)) =>
          ENABLED NextMain

C18_Step ==
    /\ (main.pc = "escape" /\ handler.key_map["Escape"]) => main'.pc = "done"
    /\ (main.pc # "done" /\ main'.pc = "done") =>
          (main.pc = "escape" /\ handler.key_map["Escape"])
    /\ tilemap' # tilemap => main.pc \in {"W", "S", "D", "A"}

\* C18: an iteration of the loop of main that ends has polled the input,
\* found Escape not pressed, made the scroll calls for the pressed W, S, D
\* and A in that order, drawn once and then presented; when Escape is
\* pressed after the poll the loop is left at once, with no scroll call,
\* draw or present in that iteration; the loop is left in no other way,
\* and until then a next statement can always run.
C18_MainLoop == []C18_Iteration /\ [][C18_Step]_vars

\* the loop has been left in its third iteration, after iterations that
\* scrolled for W and then for W and D
C18_Witness ==
    /\ main.pc = "done"
    /\ main.frame = 3
    /\ tilemap.offsets = <<OffsetAmt, 2 * OffsetAmt>>
    /\ main.trail = <<Step("update", 0)>>

\* a set_tile call writes the tile and leaves the viewport buffer, the GPU
\* buffer, the focus and the offsets as they were
C19_SetTileStep ==
    (last'.op = "set_tile" /\ ~panicked') =>
        /\ tilemap'.tiles[(last'.arg[2] * tilemap_size[1]) + last'.arg[1]] = last'.arg[3]
        /\ tilemap'.data = tilemap.data
        /\ tilemap'.gpu = tilemap.gpu
        /\ tilemap'.focus_coords = tilemap.focus_coords
        /\ tilemap'.offsets = tilemap.offsets

\* the viewport buffer and the GPU buffer change only in a call that calls
\* set_focus: set_focus itself, or an apply_*_offset that changes the focus
C19_ViewportStep ==
    (tilemap'.data # tilemap.data \/ tilemap'.gpu # tilemap.gpu) =>
        /\ last'.called
        /\ last'.op \in {"set_focus", "apply_x_offset", "apply_y_offset"}
        /\ last'.op # "set_focus" => tilemap'.focus_coords # tilemap.focus_coords

\* C19: set_tile changes only the logical grid, so a tile written inside the
\* visible window is not in the viewport buffer until the next set_focus,
\* called directly or by an apply_*_offset that changes the focus.
C19_SetTileOnlyGrid == [][C19_SetTileStep /\ C19_ViewportStep]_vars

\* after an upload, set_tile has written a tile inside the window and the
\* viewport cell and GPU record showing it still hold the old tile
C19_Witness ==
    LET xpos == last.arg[1]
        ypos == last.arg[2]
        cell == ((ypos - tilemap.focus_coords[2]) * charmap_size[1])
                    + (xpos - tilemap.focus_coords[1])
    IN  /\ last.op = "set_tile"
        /\ ~panicked
        /\ last.uploaded
        /\ InWindow(tilemap.focus_coords, xpos, ypos)
        /\ tilemap.tiles[(ypos * tilemap_size[1]) + xpos] = last.arg[3]
        /\ tilemap.data[cell] # last.arg[3]
        /\ tilemap.gpu[cell] # last.arg[3]

C20_AxisStep ==
    /\ \A axis \in 1..2 :
          last'.op = ApplyOp(axis) =>
              /\ tilemap'.focus_coords[Other(axis)] = tilemap.focus_coords[Other(axis)]
              /\ tilemap'.offsets[Other(axis)] = tilemap.offsets[Other(axis)]
              /\ tilemap'.tiles = tilemap.tiles
    /\ last'.op = "set_focus" => tilemap'.offsets = tilemap.offsets

\* C20: apply_x_offset leaves the y focus and the y offset unchanged,
\* apply_y_offset leaves the x focus and the x offset unchanged, neither
\* writes the logical grid, and set_focus leaves both offsets unchanged.
C20_AxisIndependence == [][C20_AxisStep]_vars

\* apply_y_offset has moved the y focus while the x focus is 1 and the x
\* offset 8.0
C20_Witness ==
    /\ last.op = "apply_y_offset"
    /\ last.called
    /\ tilemap.focus_coords[2] # last.pre_focus[2]
    /\ tilemap.focus_coords[1] = 1
    /\ tilemap.offsets[1] = 8 * Unit
    /\ tilemap.offsets[2] # last.pre_offsets[2]

\* C21 as stated: in every state reached from focus [0,0] and offsets [0,0]
\* by apply_x_offset and apply_y_offset calls alone, an axis whose focus is
\* at its limit has offset 0.
C21_NoOverscroll ==
    nfocus = 0 =>
        \A axis \in 1..2 :
            tilemap.focus_coords[axis] = limit_coords[axis] => tilemap.offsets[axis] = 0
====
